---- MODULE Spec2Model ----
(***************************************************************************)
(* Audit Forge: the crawl -> analyze -> score -> report pipeline.          *)
(*   crawler   crawlSite                       (unnamed/part_000)          *)
(*   analyzers analyzePage and the five parts  (server/analyzers.ts)       *)
(*   scorer    calculatePageScores/AuditScores (unnamed/part_003)          *)
(*   runner    startAudit                      (server/runner.ts)          *)
(*   store     storage.create/get/update       (unnamed/part_004)          *)
(*   dispatch  POST /api/audits                (unnamed/part_000)          *)
(***************************************************************************)
EXTENDS Integers, Sequences, FiniteSets, TLC

(***************************************************************************)
(* Bounds of the model.                                                    *)
(***************************************************************************)
MaxPagesBound == 3      \* maxPages of a request ranges over 1..MaxPagesBound
MaxAnchors == 2         \* anchors of one fetched document

(***************************************************************************)
(* Program constants.                                                      *)
(***************************************************************************)
DefaultMaxDepth == 2    \* DEFAULT_OPTIONS.maxDepth, also runner's maxDepth: 2

AllAudits == {1, 2}     \* audit ids the store can hand out

(***************************************************************************)
(* URLs.  A URL string is modelled by its hostname and path.  The path ""  *)
(* is the form without a trailing slash, which only a typed seed can have: *)
(* `new URL(x).href` always yields a path of at least "/".  A string that  *)
(* `new URL` rejects has the empty hostname.                               *)
(***************************************************************************)
Url(h, p) == [host |-> h, path |-> p]

SiteHost == "a"
OtherHost == "x"
Paths == {"/", "/p"}

SeedUrls == {Url(SiteHost, ""), Url(SiteHost, "/"), Url("", "not a url")}

RequestUrls == {Url(SiteHost, ""), Url("", "not a url")}

\* `new URL` accepting every string
ParseOkAlways(u) == TRUE

ParseOk(u) == u.host # ""
Hostname(u) == u.host
NormalizePath(p) == IF p = "" THEN "/" ELSE p

(***************************************************************************)
(* href attributes of anchors.  kind "path" is an absolute-path reference  *)
(* ("/p"), "abs" an absolute http URL, "invalid" a string `new URL`        *)
(* throws on; the other kinds are the prefixes isValidLink filters.        *)
(***************************************************************************)
Href(k, h, p) == [kind |-> k, host |-> h, path |-> p]

Hrefs ==
  {Href("path", "", p) : p \in Paths} \cup
  {Href("abs", OtherHost, ""), Href("invalid", "", "")}

isValidLink(href) ==
  href.kind \notin {"blank", "mailto", "tel", "javascript", "fragment", "data"}

ResolveOk(href) == href.kind # "invalid"

Resolve(href, base) ==
  Url(IF href.kind = "path" THEN base.host ELSE href.host,
      NormalizePath(href.path))

SeqsUpTo(S, n) == UNION {[1..k -> S] : k \in 0..n}

AnchorLists == SeqsUpTo(Hrefs, MaxAnchors)

(***************************************************************************)
(* Outcomes of one axios.get.  "threw" is a network error or timeout; a    *)
(* response has a status, a content type and a body.                       *)
(***************************************************************************)
CrawlBodies == {"good"}   \* markup does not steer the crawl

Response(t, s, h, b, l) ==
  [threw |-> t, status |-> s, isHtml |-> h, body |-> b, anchors |-> l]

\* anchorsOf[b]: the anchor lists a document with body b may carry
Responses(bodies, anchorsOf) ==
  {Response(TRUE, 0, FALSE, "", <<>>)}
  \cup UNION {{Response(FALSE, 200, TRUE, b, l) : l \in anchorsOf[b]} : b \in bodies}
  \cup {Response(FALSE, 404, TRUE, b, <<>>) : b \in bodies}
  \cup {Response(FALSE, 200, FALSE, b, <<>>) : b \in bodies}

(***************************************************************************)
(* Markup.  A document is known to the analyzers only through the          *)
(* quantities they read off it; Features gives them for each body.         *)
(* ctaOffset is lowerHtml.indexOf(first matching CTA keyword), -1 if none. *)
(***************************************************************************)
Bodies == {"good", "thin", "bare"}

Features(b) ==
  CASE b = "good" ->
         [titleLen |-> 30, descLen |-> 80, h1Count |-> 1, wordCount |-> 300,
          imagesWithoutAlt |-> 0, lang |-> TRUE, main |-> TRUE,
          inputs |-> 2, labeledInputs |-> 2, emptyButtons |-> 0,
          hasNavigation |-> TRUE, ctaOffset |-> 120, fontCount |-> 2,
          colorCount |-> 3, hasViewportMeta |-> TRUE, keywords |-> {"home"}]
    [] b = "thin" ->
         [titleLen |-> 10, descLen |-> 30, h1Count |-> 2, wordCount |-> 100,
          imagesWithoutAlt |-> 0, lang |-> TRUE, main |-> FALSE,
          inputs |-> 0, labeledInputs |-> 0, emptyButtons |-> 0,
          hasNavigation |-> TRUE, ctaOffset |-> 6000, fontCount |-> 5,
          colorCount |-> 9, hasViewportMeta |-> TRUE, keywords |-> {"about", "contact"}]
    [] OTHER ->
         [titleLen |-> 0, descLen |-> 0, h1Count |-> 0, wordCount |-> 0,
          imagesWithoutAlt |-> 2, lang |-> FALSE, main |-> FALSE,
          inputs |-> 1, labeledInputs |-> 0, emptyButtons |-> 1,
          hasNavigation |-> FALSE, ctaOffset |-> 0 - 1, fontCount |-> 0,
          colorCount |-> 0, hasViewportMeta |-> FALSE, keywords |-> {}]

\* the anchor lists the documents of an audited site carry
SiteAnchors ==
  [b \in Bodies |->
     CASE b = "good" -> {<<Href("path", "", "/p"), Href("abs", OtherHost, "")>>,
                         <<Href("path", "", "/p"), Href("path", "", "/q")>>}
       [] b = "thin" -> {<<Href("path", "", "/q"), Href("path", "", "/q")>>}
       [] OTHER -> {<<Href("mailto", "", "")>>}]

(***************************************************************************)
(* Issues.  The message text is left out; every other field is kept.       *)
(***************************************************************************)
Categories == {"seo", "performance", "accessibility", "content", "uxDesign"}
Severities == {"critical", "major", "minor"}

CTA_ABOVE_FOLD_THRESHOLD == 5000

createIssue(category, code, severity, pageUrl) ==
  [id |-> <<>>, category |-> category, code |-> code, severity |-> severity,
   pageUrl |-> pageUrl]

When(cond, issue) == IF cond THEN <<issue>> ELSE <<>>

NoData == [present |-> FALSE]

\* analyzeSeo
analyzeSeo(html, url) ==
  LET f == Features(html)
      issues ==
        (IF f.titleLen = 0
         THEN <<createIssue("seo", "MISSING_TITLE", "critical", url)>>
         ELSE When(f.titleLen < 20, createIssue("seo", "SHORT_TITLE", "minor", url)))
        \o
        (IF f.descLen = 0
         THEN <<createIssue("seo", "MISSING_META_DESCRIPTION", "major", url)>>
         ELSE When(f.descLen < 60, createIssue("seo", "SHORT_META_DESCRIPTION", "minor", url)))
        \o
        (IF f.h1Count = 0
         THEN <<createIssue("seo", "MISSING_H1", "major", url)>>
         ELSE When(f.h1Count > 1, createIssue("seo", "MULTIPLE_H1", "minor", url)))
        \o When(f.wordCount < 200, createIssue("seo", "LOW_WORD_COUNT", "major", url))
        \o When(f.imagesWithoutAlt > 0, createIssue("seo", "IMAGES_WITHOUT_ALT", "major", url))
  IN [data |-> [present |-> TRUE, titleLen |-> f.titleLen, descLen |-> f.descLen,
                wordCount |-> f.wordCount, imagesWithoutAlt |-> f.imagesWithoutAlt],
      issues |-> issues]

(***************************************************************************)
(* analyzePerformance.  An outcome of the PageSpeed call: kind "nokey" (no *)
(* PAGESPEED_API_KEY), "error" (the call threw) or "ok" with the category  *)
(* score in percent and the two timings the analyzer tests (0: missing).   *)
(***************************************************************************)
PerfOutcomes ==
  {[kind |-> "nokey", score |-> 0, lcp |-> 0, tbt |-> 0],
   [kind |-> "error", score |-> 0, lcp |-> 0, tbt |-> 0]}
  \cup {[kind |-> "ok", score |-> 10, lcp |-> 5000, tbt |-> 700],
        [kind |-> "ok", score |-> 60, lcp |-> 3000, tbt |-> 0],
        [kind |-> "ok", score |-> 60, lcp |-> 5000, tbt |-> 0]}

analyzePerformance(url, o) ==
  IF o.kind = "nokey"
  THEN [data |-> [present |-> FALSE, hasScore |-> FALSE, performanceScore |-> 0],
        issues |-> <<createIssue("performance", "PERFORMANCE_DATA_UNAVAILABLE", "minor", url)>>]
  ELSE IF o.kind = "error"
  THEN [data |-> [present |-> TRUE, hasScore |-> FALSE, performanceScore |-> 0],
        issues |-> <<createIssue("performance", "PERFORMANCE_DATA_UNAVAILABLE", "minor", url)>>]
  ELSE [data |-> [present |-> TRUE, hasScore |-> TRUE, performanceScore |-> o.score],
        issues |->
          When(o.lcp # 0 /\ o.lcp > 4000,
               createIssue("performance", "SLOW_LCP_MOBILE", "critical", url))
          \o When(o.tbt # 0 /\ o.tbt > 600,
                  createIssue("performance", "HIGH_TBT", "major", url))
          \o When(o.score < 50,
                  createIssue("performance", "POOR_PERFORMANCE_SCORE", "critical", url))]

\* the branch of analyzePage for pages other than the seed
NoPerformance ==
  [data |-> [present |-> FALSE, hasScore |-> FALSE, performanceScore |-> 0],
   issues |-> <<>>]

\* analyzeAccessibility
analyzeAccessibility(html, url) ==
  LET f == Features(html)
      unlabeledInputs == f.inputs - f.labeledInputs
  IN [data |-> [present |-> TRUE, hasLangAttribute |-> f.lang, main |-> f.main,
                labeledInputs |-> f.labeledInputs, unlabeledInputs |-> unlabeledInputs],
      issues |->
        When(~f.lang, createIssue("accessibility", "MISSING_LANG", "major", url))
        \o When(~f.main, createIssue("accessibility", "MISSING_MAIN", "minor", url))
        \o When(unlabeledInputs > 0,
                createIssue("accessibility", "UNLABELED_INPUTS", "major", url))
        \o When(f.emptyButtons > 0,
                createIssue("accessibility", "EMPTY_BUTTONS", "minor", url))]

Min(x, y) == IF x < y THEN x ELSE y
Max(x, y) == IF x > y THEN x ELSE y

\* indices of a sequence kept by a filter, in order
RECURSIVE Pick(_, _, _)
Pick(s, keep, i) ==
  IF i > Len(s) THEN <<>>
  ELSE (IF i \in keep THEN <<s[i]>> ELSE <<>>) \o Pick(s, keep, i + 1)

\* the links analyzeContentStructure probes: internalLinks.slice(0, 5) at depth <= 1
ProbeLimit == 5
LinksToCheck(page) ==
  IF page.depth <= 1 THEN 1..Min(ProbeLimit, Len(page.internalLinks)) ELSE {}

\* analyzeContentStructure; broken: the probed positions whose HEAD failed
analyzeContentStructure(page, broken) ==
  LET f == Features(page.html)
      pageType == IF "contact" \in f.keywords THEN "contact"
                  ELSE IF "about" \in f.keywords THEN "about"
                  ELSE IF "menu" \in f.keywords \/ "services" \in f.keywords THEN "menu"
                  ELSE IF "home" \in f.keywords THEN "home"
                  ELSE "generic"
      brokenLinks == Pick(page.internalLinks, broken \cap LinksToCheck(page), 1)
  IN [data |-> [present |-> TRUE, pageType |-> pageType,
                internalLinkCount |-> Len(page.internalLinks),
                externalLinkCount |-> Len(page.externalLinks),
                brokenLinks |-> brokenLinks, inboundLinks |-> 0,
                outboundLinks |-> Len(page.internalLinks)],
      issues |-> When(page.depth <= 1 /\ Len(brokenLinks) > 0,
                      createIssue("content", "BROKEN_INTERNAL_LINK", "major", page.url))]

\* analyzeDesignUx
analyzeDesignUx(html, url) ==
  LET f == Features(html)
      primaryCtaFound == f.ctaOffset >= 0
      primaryCtaAboveFold == primaryCtaFound /\ f.ctaOffset < CTA_ABOVE_FOLD_THRESHOLD
  IN [data |-> [present |-> TRUE, hasNavigation |-> f.hasNavigation,
                primaryCtaFound |-> primaryCtaFound,
                primaryCtaAboveFold |-> primaryCtaAboveFold,
                fontCount |-> f.fontCount, colorCount |-> f.colorCount,
                hasViewportMeta |-> f.hasViewportMeta],
      issues |->
        When(~f.hasNavigation, createIssue("uxDesign", "MISSING_NAV", "major", url))
        \o (IF ~primaryCtaFound
            THEN <<createIssue("uxDesign", "NO_PRIMARY_CTA", "major", url)>>
            ELSE When(~primaryCtaAboveFold,
                      createIssue("uxDesign", "NO_CTA_ABOVE_FOLD", "minor", url)))
        \o When(~f.hasViewportMeta,
                createIssue("uxDesign", "MISSING_VIEWPORT_META", "critical", url))
        \o When(f.fontCount > 4, createIssue("uxDesign", "EXCESSIVE_FONTS", "minor", url))
        \o When(f.colorCount > 8, createIssue("uxDesign", "EXCESSIVE_COLORS", "minor", url))]

\* analyzePage whose early return for empty markup reports no issue
analyzePageSilent(page, perf, broken) ==
  IF page.html = ""
  THEN [issues |-> <<>>,
        seoData |-> NoData, performanceData |-> NoData, accessibilityData |-> NoData,
        contentData |-> NoData, designUxData |-> NoData]
  ELSE LET seo == analyzeSeo(page.html, page.url)
           accessibility == analyzeAccessibility(page.html, page.url)
           ux == analyzeDesignUx(page.html, page.url)
           content == analyzeContentStructure(page, broken)
           performance == IF page.depth = 0 THEN analyzePerformance(page.url, perf)
                          ELSE NoPerformance
       IN [issues |-> seo.issues \o performance.issues \o accessibility.issues
                      \o content.issues \o ux.issues,
           seoData |-> seo.data, performanceData |-> performance.data,
           accessibilityData |-> accessibility.data, contentData |-> content.data,
           designUxData |-> ux.data]

\* analyzePage(page); perf and broken are the outcomes of its network calls
analyzePage(page, perf, broken) ==
  IF page.html = ""
  THEN [issues |-> <<createIssue("content", "PAGE_UNREACHABLE", "critical", page.url)>>,
        seoData |-> NoData, performanceData |-> NoData, accessibilityData |-> NoData,
        contentData |-> NoData, designUxData |-> NoData]
  ELSE LET seo == analyzeSeo(page.html, page.url)
           accessibility == analyzeAccessibility(page.html, page.url)
           ux == analyzeDesignUx(page.html, page.url)
           content == analyzeContentStructure(page, broken)
           performance == IF page.depth = 0 THEN analyzePerformance(page.url, perf)
                          ELSE NoPerformance
       IN [issues |-> seo.issues \o performance.issues \o accessibility.issues
                      \o content.issues \o ux.issues,
           seoData |-> seo.data, performanceData |-> performance.data,
           accessibilityData |-> accessibility.data, contentData |-> content.data,
           designUxData |-> ux.data]

(***************************************************************************)
(* Scoring.  A JavaScript number that is not an integer is kept as a       *)
(* fraction num/den; Math.round is floor(x + 1/2).                         *)
(***************************************************************************)
\* one penalty for every severity
severityPenaltyFlat(severity) == 15

severityPenalty(severity) ==
  CASE severity = "critical" -> 25
    [] severity = "major" -> 15
    [] OTHER -> 7

\* Math.floor in place of Math.round
RoundDown(num, den) == num \div den

Round(num, den) == (2 * num + den) \div (2 * den)

\* clampScore without the lower clamp
clampScoreNoFloor(num, den) == Min(100, Round(num, den))

clampScore(num, den) == Max(0, Min(100, Round(num, den)))

\* issues.filter(i => i.category === category).reduce(acc + severityPenalty), from index i
RECURSIVE PenaltyFrom(_, _, _)
PenaltyFrom(issues, category, i) ==
  IF i > Len(issues) THEN 0
  ELSE (IF issues[i].category = category
        THEN severityPenalty(issues[i].severity) ELSE 0)
       + PenaltyFrom(issues, category, i + 1)

SumPenalty(issues, category) == PenaltyFrom(issues, category, 1)

scoreCategory(base, issues, category, extraPenalty) ==
  clampScore(base - SumPenalty(issues, category) - extraPenalty, 1)

\* scorePerformance returning the base without the severity penalties
scorePerformanceNoPenalty(performanceData, issues) ==
  IF performanceData.present /\ performanceData.hasScore
  THEN clampScore(2 * performanceData.performanceScore
                    - SumPenalty(issues, "performance"), 2)
  ELSE 80

\* scorePerformance: with a PageSpeed score each penalty counts half
scorePerformance(performanceData, issues) ==
  IF performanceData.present /\ performanceData.hasScore
  THEN clampScore(2 * performanceData.performanceScore
                    - SumPenalty(issues, "performance"), 2)
  ELSE scoreCategory(80, issues, "performance", 0)

ZeroScores ==
  [overall |-> 0, seo |-> 0, performance |-> 0, accessibility |-> 0,
   content |-> 0, uxDesign |-> 0]

calculatePageScores(page) ==
  LET issues == page.issues
      seoData == page.seoData
      contentData == page.contentData
      seoPenalty == IF seoData.present /\ seoData.wordCount # 0 /\ seoData.wordCount < 120
                    THEN 5 ELSE 0
      seo == scoreCategory(100, issues, "seo", seoPenalty)
      accessibility ==
        scoreCategory(100, issues, "accessibility",
                      IF page.accessibilityData.present
                         /\ page.accessibilityData.unlabeledInputs # 0 THEN 5 ELSE 0)
      contentPenalty ==
        (IF contentData.present /\ contentData.internalLinkCount = 0 THEN 10 ELSE 0)
        + (IF contentData.present /\ Len(contentData.brokenLinks) > 0 THEN 5 ELSE 0)
        + (IF contentData.present /\ contentData.inboundLinks = 0 /\ page.depth > 0
           THEN 10 ELSE 0)
      content == scoreCategory(95, issues, "content", contentPenalty)
      uxPenalty == IF page.designUxData.present /\ ~page.designUxData.hasNavigation
                   THEN 10 ELSE 0
      uxDesign == scoreCategory(100, issues, "uxDesign", uxPenalty)
      performance == scorePerformance(page.performanceData, issues)
      overall == clampScore(seo + accessibility + content + uxDesign + performance, 5)
  IN [overall |-> overall, seo |-> seo, performance |-> performance,
      accessibility |-> accessibility, content |-> content, uxDesign |-> uxDesign]

ScoreKeys == {"overall", "seo", "performance", "accessibility", "content", "uxDesign"}

(***************************************************************************)
(* JavaScript numbers in calculateAuditScores.  The weights 1 / (1 + depth) *)
(* are not all binary fractions, so the sums and quotients are kept as the *)
(* IEEE 754 doubles the code computes.  A non-negative double d below 2^12 *)
(* is the integer d * 2^60, held in three limbs <<n0, n1, n2>> of 24 bits   *)
(* (least significant first); every double from 2^-8 up is such an integer.*)
(***************************************************************************)
LimbBase == 2^24

\* the value of a `const`: S is the singleton of an expression evaluated once
The(S) == CHOOSE v \in S : TRUE

FromInt(n) == <<0, 0, n * 2^12>>

BigCarry(x) ==
  The({<<v[1] % LimbBase,
         (v[2] + (v[1] \div LimbBase)) % LimbBase,
         v[3] + ((v[2] + (v[1] \div LimbBase)) \div LimbBase)>> : v \in {x}})

BigAdd(x, y) == BigCarry(<<x[1] + y[1], x[2] + y[2], x[3] + y[3]>>)

BigDbl(x) == BigCarry(<<2 * x[1], 2 * x[2], 2 * x[3]>>)

\* x * n for an integer n up to 100
BigMulInt(x, n) == BigCarry(<<x[1] * n, x[2] * n, x[3] * n>>)

BigLess(x, y) ==
  \/ x[3] < y[3]
  \/ x[3] = y[3] /\ x[2] < y[2]
  \/ x[3] = y[3] /\ x[2] = y[2] /\ x[1] < y[1]

\* x - y for x >= y
BigSub(x, y) ==
  LET b0 == IF x[1] < y[1] THEN 1 ELSE 0
      b1 == IF x[2] - b0 < y[2] THEN 1 ELSE 0
  IN <<x[1] - y[1] + b0 * LimbBase,
       x[2] - b0 - y[2] + b1 * LimbBase,
       x[3] - b1 - y[3]>>

\* number of bits of n < 2^26
BitLen(n) == CHOOSE k \in 0..26 : n < 2^k /\ (k = 0 \/ n >= 2^(k - 1))

\* x with its k lowest bits rounded away: to nearest, ties to even
RoundBits(x, k) ==
  LET low == x[1] % (2^k)
      half == 2^(k - 1)
      keptOdd == (x[1] \div (2^k)) % 2 = 1
      up == low > half \/ (low = half /\ keptOdd)
  IN BigCarry(<<x[1] - low + (IF up THEN 2^k ELSE 0), x[2], x[3]>>)

\* the nearest double: 53 significant bits are kept
Round53(x) ==
  The(UNION {{IF k <= 0 THEN v ELSE RoundBits(v, k) : k \in {BitLen(v[3]) - 5}}
             : v \in {x}})

\* the double sum x + y
FAdd(x, y) == Round53(BigAdd(x, y))

\* the double product n * x of an integer-valued n and x
FMulInt(n, x) == Round53(BigMulInt(x, n))

\* scale x or y by powers of two until y <= x < 2y; e is the exponent of x / y
RECURSIVE DivNorm(_, _, _)
DivNorm(x, y, e) ==
  IF BigLess(x, y) THEN The({DivNorm(x2, y, e - 1) : x2 \in {BigDbl(x)}})
  ELSE The({IF BigLess(x, y2) THEN <<x, y, e>> ELSE DivNorm(x, y2, e + 1)
            : y2 \in {BigDbl(y)}})

\* n further quotient bits of r / y, appended to m; yields <<remainder * 2^n, m>>
RECURSIVE DivBits(_, _, _, _)
DivBits(r, y, m, n) ==
  IF n = 0 THEN <<r, m>>
  ELSE The(UNION {{DivBits(r2, y, st[2], st[3]) : r2 \in {BigDbl(st[1])}}
                  : st \in {IF BigLess(r, y) THEN <<r, 2 * m, n - 1>>
                             ELSE <<BigSub(r, y), 2 * m + 1, n - 1>>}})

RECURSIVE BigShift(_, _)
BigShift(x, n) ==
  IF n = 0 THEN x ELSE The({BigShift(st[1], st[2]) : st \in {<<BigDbl(x), n - 1>>}})

\* the 53-bit quotient (29 high bits hi[2], 24 low bits lo[2]) rounded to
\* nearest, ties to even, on the remainder lo[1], and placed at the exponent
DivRound(nrm, hi, lo) ==
  LET up == BigLess(nrm[2], lo[1]) \/ (lo[1] = nrm[2] /\ lo[2] % 2 = 1)
  IN The({BigShift(mant, nrm[3] + 8)
          : mant \in {BigCarry(<<lo[2] + (IF up THEN 1 ELSE 0), hi[2], 0>>)}})

\* the double quotient x / y, y > 0
FDiv(x, y) ==
  IF x = <<0, 0, 0>> THEN x
  ELSE The(UNION {UNION {{DivRound(nrm, hi, lo)
                          : lo \in {DivBits(hi[1], nrm[2], 0, 24)}}
                         : hi \in {DivBits(nrm[1], nrm[2], 0, 29)}}
                  : nrm \in {DivNorm(x, y, 0)}})

\* Math.round: the integer floor(x + 1/2), computed exactly
MathRound(x) == (x[3] + 2^11) \div (2^12)

\* clampScore of a double
clampScoreDouble(x) == The({Max(0, Min(100, r)) : r \in {MathRound(x)}})

\* 1 / (1 + depth) for the depths a crawl can produce
WeightOf == [d \in 0..DefaultMaxDepth |-> FDiv(FromInt(1), FromInt(1 + d))]

\* every page weighted as the seed
WeightFlat(depth) == WeightOf[0]

Weight(depth) == WeightOf[depth]

RECURSIVE SumSeq(_)
SumSeq(s) == IF s = <<>> THEN 0 ELSE Head(s) + SumSeq(Tail(s))

\* the flattening that keeps only the first page's issues
FlatMapFirstPage(pages) == pages[1].issues

FlatMapIssues(pages) ==
  LET RECURSIVE F(_)
      F(ps) == IF ps = <<>> THEN <<>> ELSE Head(ps).issues \o F(Tail(ps))
  IN F(pages)

ZeroSummary ==
  [critical |-> 0, major |-> 0, minor |-> 0,
   byCategory |-> [c \in Categories |-> 0]]

IssuesSummaryOf(allIssues) ==
  [critical |-> Len(SelectSeq(allIssues, LAMBDA i : i.severity = "critical")),
   major |-> Len(SelectSeq(allIssues, LAMBDA i : i.severity = "major")),
   minor |-> Len(SelectSeq(allIssues, LAMBDA i : i.severity = "minor")),
   byCategory |-> [c \in Categories |->
                     Len(SelectSeq(allIssues, LAMBDA i : i.category = c))]]

\* the accumulation `for (const page of pages)` up to page i: total weight
\* (key "") or the weighted total of one score
RECURSIVE Accumulate(_, _, _)
Accumulate(pages, k, i) ==
  IF i = 0 THEN FromInt(0)
  ELSE The(UNION {{FAdd(acc, term)
                   : term \in {IF k = "" THEN weight
                               ELSE FMulInt(pages[i].scores[k], weight)}}
                  : acc \in {Accumulate(pages, k, i - 1)},
                    weight \in {Weight(pages[i].depth)}})

calculateAuditScores(pages) ==
  IF Len(pages) = 0
  THEN [scores |-> ZeroScores, issuesSummary |-> ZeroSummary]
  ELSE The({[scores |->
               [k \in ScoreKeys |->
                  The({clampScoreDouble(FDiv(total, totalWeight))
                       : total \in {Accumulate(pages, k, Len(pages))}})],
             issuesSummary |-> IssuesSummaryOf(FlatMapIssues(pages))]
            : totalWeight \in {Accumulate(pages, "", Len(pages))}})

VARIABLES
  db,        \* the store: the array of Audit records in data/audits.json
  analyzedPages, \* startAudit's analyzedPages
  pc,        \* pc[a]: position of audit a's background task
  maxPages,  \* crawlSite's maxPages
  maxDepth,  \* crawlSite's maxDepth
  startUrl,  \* crawlSite's startUrl
  visited,   \* crawlSite's visited set
  queue,     \* crawlSite's work queue of [url, depth]
  results    \* crawlSite's results

crawlVars == <<maxPages, maxDepth, startUrl, visited, queue, results>>
vars == <<db, analyzedPages, pc, crawlVars>>

(***************************************************************************)
(* crawlSite: link extraction of one page, anchor by anchor.               *)
(* acc = [internalLinks, externalLinks, queue].                            *)
(***************************************************************************)
QueueHas(q, u) == \E i \in 1..Len(q) : q[i].url = u

\* the anchor step without the depth test in shouldQueue
ExtractAnchorAnyDepth(acc, href, currentUrl, depth, domain, vis, mDepth) ==
  IF ~isValidLink(href) \/ ~ResolveOk(href) THEN acc
  ELSE LET absoluteUrl == Resolve(href, currentUrl)
           shouldQueue == absoluteUrl \notin vis /\ ~QueueHas(acc.queue, absoluteUrl)
       IN IF Hostname(absoluteUrl) = domain
          THEN [acc EXCEPT
                  !.internalLinks = Append(@, absoluteUrl),
                  !.queue = IF shouldQueue
                            THEN Append(@, [url |-> absoluteUrl, depth |-> depth + 1])
                            ELSE @]
          ELSE [acc EXCEPT !.externalLinks = Append(@, absoluteUrl)]

\* the anchor step that takes every resolved link for an internal one
ExtractAnchorAnyHost(acc, href, currentUrl, depth, domain, vis, mDepth) ==
  IF ~isValidLink(href) \/ ~ResolveOk(href) THEN acc
  ELSE LET absoluteUrl == Resolve(href, currentUrl)
           shouldQueue == /\ depth < mDepth
                          /\ absoluteUrl \notin vis
                          /\ ~QueueHas(acc.queue, absoluteUrl)
       IN [acc EXCEPT
             !.internalLinks = Append(@, absoluteUrl),
             !.queue = IF shouldQueue
                       THEN Append(@, [url |-> absoluteUrl, depth |-> depth + 1])
                       ELSE @]

\* the anchor step that queues a link at the depth of the page that carries it
ExtractAnchorSameDepth(acc, href, currentUrl, depth, domain, vis, mDepth) ==
  IF ~isValidLink(href) \/ ~ResolveOk(href) THEN acc
  ELSE LET absoluteUrl == Resolve(href, currentUrl)
           isInternal == Hostname(absoluteUrl) = domain
           shouldQueue == /\ depth < mDepth
                          /\ absoluteUrl \notin vis
                          /\ ~QueueHas(acc.queue, absoluteUrl)
       IN IF isInternal
          THEN [acc EXCEPT
                  !.internalLinks = Append(@, absoluteUrl),
                  !.queue = IF shouldQueue
                            THEN Append(@, [url |-> absoluteUrl, depth |-> depth])
                            ELSE @]
          ELSE [acc EXCEPT !.externalLinks = Append(@, absoluteUrl)]

ExtractAnchor(acc, href, currentUrl, depth, domain, vis, mDepth) ==
  IF ~isValidLink(href) \/ ~ResolveOk(href) THEN acc
  ELSE LET absoluteUrl == Resolve(href, currentUrl)
           isInternal == Hostname(absoluteUrl) = domain
           shouldQueue == /\ depth < mDepth
                          /\ absoluteUrl \notin vis
                          /\ ~QueueHas(acc.queue, absoluteUrl)
       IN IF isInternal
          THEN [acc EXCEPT
                  !.internalLinks = Append(@, absoluteUrl),
                  !.queue = IF shouldQueue
                            THEN Append(@, [url |-> absoluteUrl, depth |-> depth + 1])
                            ELSE @]
          ELSE [acc EXCEPT !.externalLinks = Append(@, absoluteUrl)]

RECURSIVE ExtractLinks(_, _, _, _, _, _, _)
ExtractLinks(acc, anchors, currentUrl, depth, domain, vis, mDepth) ==
  IF anchors = <<>> THEN acc
  ELSE ExtractLinks(ExtractAnchor(acc, Head(anchors), currentUrl, depth, domain, vis, mDepth),
                    Tail(anchors), currentUrl, depth, domain, vis, mDepth)

(***************************************************************************)
(* crawlSite(startUrl, {maxPages, maxDepth}): entry.                       *)
(***************************************************************************)
CrawlEnter(a, url, mp, md) ==
  /\ startUrl' = [startUrl EXCEPT ![a] = url]
  /\ maxPages' = [maxPages EXCEPT ![a] = mp]
  /\ maxDepth' = [maxDepth EXCEPT ![a] = md]
  /\ visited' = [visited EXCEPT ![a] = {}]
  /\ queue' = [queue EXCEPT ![a] = <<[url |-> url, depth |-> 0]>>]
  /\ results' = [results EXCEPT ![a] = <<>>]

\* visited.add(currentUrl) left out
MarkVisitedNever(vis, u) == vis

\* visited.add(currentUrl)
MarkVisited(vis, u) == vis \cup {u}

\* the loop condition with <= for <
LoopCondOffByOne(a) == Len(queue[a]) > 0 /\ Len(results[a]) <= maxPages[a]

\* the loop condition without the results.length test
LoopCondQueueOnly(a) == Len(queue[a]) > 0

\* the loop condition that stops one result short of maxPages
LoopCondOneShort(a) == Len(queue[a]) > 0 /\ Len(results[a]) + 1 < maxPages[a]

LoopCond(a) == Len(queue[a]) > 0 /\ Len(results[a]) < maxPages[a]

\* one iteration of the while loop, the fetch included
CrawlStep(a, bodies, anchorsOf) ==
  /\ pc[a] = "crawl"
  /\ ParseOk(startUrl[a])
  /\ LoopCond(a)
  /\ LET next == Head(queue[a])
         currentUrl == next.url
         depth == next.depth
         rest == Tail(queue[a])
         vis == MarkVisited(visited[a], currentUrl)
         domain == Hostname(startUrl[a])
     IN IF currentUrl \in visited[a]
        THEN /\ queue' = [queue EXCEPT ![a] = rest]
             /\ UNCHANGED <<visited, results>>
        ELSE \E r \in Responses(bodies, anchorsOf) :
               LET html == IF ~r.threw /\ r.isHtml THEN r.body ELSE ""
                   parse == html # "" /\ r.status >= 200 /\ r.status < 400
                   acc0 == [internalLinks |-> <<>>, externalLinks |-> <<>>, queue |-> rest]
                   acc == IF ~r.threw /\ parse
                          THEN ExtractLinks(acc0, r.anchors, currentUrl, depth,
                                            domain, vis, maxDepth[a])
                          ELSE acc0
                   res == IF r.threw
                          THEN [url |-> currentUrl, html |-> "", statusCode |-> 0,
                                depth |-> depth, internalLinks |-> <<>>,
                                externalLinks |-> <<>>, error |-> "network error"]
                          ELSE [url |-> currentUrl, html |-> html, statusCode |-> r.status,
                                depth |-> depth, internalLinks |-> acc.internalLinks,
                                externalLinks |-> acc.externalLinks, error |-> ""]
               IN /\ visited' = [visited EXCEPT ![a] = vis]
                  /\ queue' = [queue EXCEPT ![a] = acc.queue]
                  /\ results' = [results EXCEPT ![a] = Append(@, res)]
  /\ UNCHANGED <<db, analyzedPages, pc, maxPages, maxDepth, startUrl>>

\* crawlSite returns: malformed seed (return []) or the loop condition is false
CrawlReturn(a) ==
  /\ pc[a] = "crawl"
  /\ ~ParseOk(startUrl[a]) \/ ~LoopCond(a)
  /\ pc' = [pc EXCEPT ![a] = "crawled"]
  /\ results' = [results EXCEPT ![a] = IF ParseOk(startUrl[a]) THEN @ ELSE <<>>]
  /\ UNCHANGED <<db, analyzedPages, maxPages, maxDepth, startUrl, visited, queue>>

(***************************************************************************)
(* A crawl on its own: crawlSite called with any options.                  *)
(***************************************************************************)
InitIdle ==
  /\ db = <<>>
  /\ analyzedPages = [a \in AllAudits |-> <<>>]
  /\ pc = [a \in AllAudits |-> "idle"]
  /\ maxPages = [a \in AllAudits |-> 0]
  /\ maxDepth = [a \in AllAudits |-> 0]
  /\ startUrl = [a \in AllAudits |-> Url("", "")]
  /\ visited = [a \in AllAudits |-> {}]
  /\ queue = [a \in AllAudits |-> <<>>]
  /\ results = [a \in AllAudits |-> <<>>]

CallCrawl(a) ==
  /\ pc[a] = "idle"
  /\ \E url \in SeedUrls, mp \in 1..MaxPagesBound, md \in 0..DefaultMaxDepth :
       CrawlEnter(a, url, mp, md)
  /\ pc' = [pc EXCEPT ![a] = "crawl"]
  /\ UNCHANGED <<db, analyzedPages>>

NextCrawl ==
  \/ CallCrawl(1)
  \/ CrawlStep(1, CrawlBodies, [b \in CrawlBodies |-> AnchorLists])
  \/ CrawlReturn(1)

SpecCrawl == InitIdle /\ [][NextCrawl]_vars

\* A crawl whose loop keeps running: every axios.get carries a timeout, so
\* each iteration of the loop ends and the next test of the condition is made.
\* Only internal links reach the queue, so the documents of this
\* specification carry internal links only.
InternalAnchorLists == SeqsUpTo({Href("path", "", p) : p \in Paths}, MaxAnchors)

CrawlLoop(a) ==
  \/ CrawlStep(a, CrawlBodies, [b \in CrawlBodies |-> InternalAnchorLists])
  \/ CrawlReturn(a)

NextCrawlLive ==
  \/ CallCrawl(1)
  \/ CrawlLoop(1)

SpecCrawlLive == InitIdle /\ [][NextCrawlLive]_vars /\ WF_vars(CrawlLoop(1))

(***************************************************************************)
(* The store (storage.create / get / update) and the dispatch layer.       *)
(***************************************************************************)
HasAudit(id) == \E i \in 1..Len(db) : db[i].id = id
IndexOf(id) == CHOOSE i \in 1..Len(db) : db[i].id = id /\ \A j \in 1..(i - 1) : db[j].id # id
get(id) == db[IndexOf(id)]

\* storage.create(url); id is the fresh randomUUID
newAudit(id, url) ==
  [id |-> id, url |-> url, status |-> "queued", createdAt |-> "stamp",
   completedAt |-> "", scores |-> ZeroScores,
   issuesSummary |-> ZeroSummary, pages |-> <<>>,
   reportMarkdown |-> <<>>]

create(id, url) == Append(db, newAudit(id, url))

\* audits[index] = { ...audits[index], ...updates }
Merge(rec, updates) ==
  [k \in DOMAIN rec |-> IF k \in DOMAIN updates THEN updates[k] ELSE rec[k]]

\* an update that rewrites the first record whatever the id
updateFirstRecord(id, updates) ==
  IF HasAudit(id) THEN [db EXCEPT ![1] = Merge(@, updates)] ELSE db

update(id, updates) ==
  IF HasAudit(id) THEN [db EXCEPT ![IndexOf(id)] = Merge(@, updates)] ELSE db

\* POST /api/audits: storage.create, then startAudit(newAudit.id, maxPages || 20)
PostAudit(a) ==
  /\ pc[a] = "idle"
  /\ ~HasAudit(a)
  /\ \E url \in RequestUrls, mp \in 1..MaxPagesBound :
       /\ db' = create(a, url)
       /\ maxPages' = [maxPages EXCEPT ![a] = mp]
  /\ pc' = [pc EXCEPT ![a] = "queued"]
  /\ UNCHANGED <<analyzedPages, maxDepth, startUrl, visited, queue, results>>

(***************************************************************************)
(* startAudit (server/runner.ts).                                          *)
(***************************************************************************)
RunningUpdate == [status |-> "running"]

\* the zero-pages update without the timestamp
ZeroPagesUpdateNoStamp == [status |-> "failed"]

\* the zero-pages exit returning without any update
ZeroPagesUpdateNothing == <<>>

ZeroPagesUpdate == [status |-> "failed", completedAt |-> "stamp"]

\* a catch block that also persists the pages analyzed so far
CatchUpdatePartial(a) ==
  [status |-> "failed", completedAt |-> "stamp", pages |-> analyzedPages[a]]

CatchUpdate(a) == [status |-> "failed", completedAt |-> "stamp"]

\* storage.get, update to RUNNING, call of crawlSite(audit.url, {maxPages, maxDepth: 2})
StartAudit(a) ==
  /\ pc[a] = "queued"
  /\ HasAudit(a)
  /\ db' = update(a, RunningUpdate)
  /\ CrawlEnter(a, get(a).url, maxPages[a], DefaultMaxDepth)
  /\ pc' = [pc EXCEPT ![a] = "crawl"]
  /\ UNCHANGED analyzedPages

\* the test `crawledPages.length === 0`
NoPagesNever(a) == FALSE

\* the test that also takes a crawl of failed fetches only for an empty one
NoPagesOrAllFailed(a) == \A i \in 1..Len(results[a]) : results[a][i].error # ""

NoPages(a) == Len(results[a]) = 0

\* after the crawl: the zero-pages exit, or on to the page loop
RunnerAfterCrawl(a) ==
  /\ pc[a] = "crawled"
  /\ HasAudit(a)
  /\ IF NoPages(a)
     THEN /\ db' = update(a, ZeroPagesUpdate)
          /\ pc' = [pc EXCEPT ![a] = "done"]
          /\ UNCHANGED analyzedPages
     ELSE /\ pc' = [pc EXCEPT ![a] = "analyze"]
          /\ analyzedPages' = [analyzedPages EXCEPT ![a] = <<>>]
          /\ UNCHANGED db
  /\ UNCHANGED crawlVars

\* buildInboundLinkMap(pages)[url]
RECURSIVE CountLinks(_, _)
CountLinks(links, url) ==
  IF links = <<>> THEN 0
  ELSE (IF Head(links) = url THEN 1 ELSE 0) + CountLinks(Tail(links), url)

\* an inbound-link map without entries
buildInboundLinkMapEmpty(pages, url) == 0

buildInboundLinkMap(pages, url) ==
  SumSeq([i \in 1..Len(pages) |-> CountLinks(pages[i].internalLinks, url)])

\* applyContentGraphIssues without the test `page.depth > 0`
applyContentGraphIssuesAnyDepth(page, inboundLinks) ==
  LET contentData == IF page.contentData.present
                     THEN [page.contentData EXCEPT
                             !.inboundLinks = inboundLinks,
                             !.outboundLinks = page.contentData.internalLinkCount]
                     ELSE page.contentData
      issues == page.issues \o
                When(inboundLinks = 0,
                     createIssue("content", "ORPHAN_PAGE", "major", page.url))
  IN [page EXCEPT !.issues = issues, !.contentData = contentData]

\* applyContentGraphIssues(page, inboundLinks)
applyContentGraphIssues(page, inboundLinks) ==
  LET contentData == IF page.contentData.present
                     THEN [page.contentData EXCEPT
                             !.inboundLinks = inboundLinks,
                             !.outboundLinks = page.contentData.internalLinkCount]
                     ELSE page.contentData
      issues == page.issues \o
                When(inboundLinks = 0 /\ page.depth > 0,
                     createIssue("content", "ORPHAN_PAGE", "major", page.url))
  IN [page EXCEPT !.issues = issues, !.contentData = contentData]

\* the page record of a result that carries a fetch error
UnreachablePage(id, raw) ==
  [id |-> id, url |-> raw.url, statusCode |-> raw.statusCode, depth |-> raw.depth,
   scores |-> ZeroScores,
   issues |-> <<createIssue("content", "PAGE_UNREACHABLE", "critical", raw.url)>>,
   seoData |-> NoData, performanceData |-> NoData, accessibilityData |-> NoData,
   contentData |-> NoData, designUxData |-> NoData]

\* pageBase with the depth of the seed for every page
PageBaseSeedDepth(id, raw, analysis) ==
  [id |-> id, url |-> raw.url, statusCode |-> raw.statusCode,
   depth |-> 0, scores |-> ZeroScores,
   issues |-> analysis.issues, seoData |-> analysis.seoData,
   performanceData |-> analysis.performanceData,
   accessibilityData |-> analysis.accessibilityData,
   contentData |-> analysis.contentData,
   designUxData |-> analysis.designUxData]

\* pageBase: the analysis of a result before graph issues, ids and scores
PageBase(id, raw, analysis) ==
  [id |-> id, url |-> raw.url, statusCode |-> raw.statusCode,
   depth |-> raw.depth, scores |-> ZeroScores,
   issues |-> analysis.issues, seoData |-> analysis.seoData,
   performanceData |-> analysis.performanceData,
   accessibilityData |-> analysis.accessibilityData,
   contentData |-> analysis.contentData,
   designUxData |-> analysis.designUxData]

\* issuesWithIds: id = `${page id}-${idx}`, pageUrl = the page's url
WithIssueIds(withGraph) ==
  [withGraph EXCEPT
     !.issues = [idx \in 1..Len(withGraph.issues) |->
                   [withGraph.issues[idx] EXCEPT
                      !.id = <<withGraph.id, idx - 1>>,
                      !.pageUrl = withGraph.url]]]

\* one iteration of `for (const raw of crawledPages)`; the page id is the
\* fresh randomUUID, here the audit id with the position of the page.  Each
\* const of the loop body is bound in turn.
AnalyzeNext(a, perfOutcomes) ==
  /\ pc[a] = "analyze"
  /\ Len(analyzedPages[a]) < Len(results[a])
  /\ LET raw == results[a][Len(analyzedPages[a]) + 1]
         id == <<a, Len(analyzedPages[a]) + 1>>
     IN IF raw.error # ""
        THEN analyzedPages' = [analyzedPages EXCEPT ![a] = Append(@, UnreachablePage(id, raw))]
        ELSE \E perf \in perfOutcomes, broken \in SUBSET LinksToCheck(raw) :
             \E analysis \in {analyzePage(raw, perf, broken)} :
             \E withGraph \in {applyContentGraphIssues(
                                 PageBase(id, raw, analysis),
                                 buildInboundLinkMap(results[a], raw.url))} :
             \E scoredPage \in {WithIssueIds(withGraph)} :
             \E scores \in {calculatePageScores(scoredPage)} :
               analyzedPages' = [analyzedPages EXCEPT ![a] =
                                   Append(@, [scoredPage EXCEPT !.scores = scores])]
  /\ UNCHANGED <<db, pc, crawlVars>>

\* generateReport(url, scores, issuesSummary): the text is a function of its inputs
generateReport(url, scores, issuesSummary) == <<url, scores, issuesSummary>>

CompletedUpdate(url, pages, r) ==
  [status |-> "completed", completedAt |-> "stamp", scores |-> r.scores,
   issuesSummary |-> r.issuesSummary, pages |-> pages,
   reportMarkdown |-> generateReport(url, r.scores, r.issuesSummary)]

\* after the page loop: audit scores, report, the update to COMPLETED
Complete(a) ==
  /\ pc[a] = "analyze"
  /\ Len(analyzedPages[a]) = Len(results[a])
  /\ \E r \in {calculateAuditScores(analyzedPages[a])} :
     \E updates \in {CompletedUpdate(get(a).url, analyzedPages[a], r)} :
       db' = update(a, updates)
  /\ pc' = [pc EXCEPT ![a] = "done"]
  /\ UNCHANGED <<analyzedPages, crawlVars>>

\* an exception escapes the page loop: the catch block
ThrowGuardLate(a) == pc[a] \in {"analyze", "done"}

ThrowGuard(a) == pc[a] = "analyze"

Throw(a) ==
  /\ ThrowGuard(a)
  /\ db' = update(a, CatchUpdate(a))
  /\ pc' = [pc EXCEPT ![a] = "done"]
  /\ UNCHANGED <<analyzedPages, crawlVars>>

(***************************************************************************)
(* The pipeline: one audit posted and run to its end.                      *)
(***************************************************************************)
Init == InitIdle

Next ==
  \/ PostAudit(1)
  \/ StartAudit(1)
  \/ CrawlStep(1, Bodies, SiteAnchors)
  \/ CrawlReturn(1)
  \/ RunnerAfterCrawl(1)
  \/ AnalyzeNext(1, PerfOutcomes)
  \/ Complete(1)
  \/ Throw(1)

Spec == Init /\ [][Next]_vars

(***************************************************************************)
(* The pipeline under fair scheduling.  Every awaited call settles, so the *)
(* background task of an audit takes its next step whenever it has one.    *)
(* Termination does not depend on the markup: this specification draws the *)
(* documents from two and lets every PageSpeed call fail.                  *)
(***************************************************************************)
LiveBodies == {"good", "bare"}
LivePerfOutcomes == {o \in PerfOutcomes : o.kind = "error"}

TaskStep(a) ==
  \/ StartAudit(a)
  \/ CrawlStep(a, LiveBodies, SiteAnchors)
  \/ CrawlReturn(a)
  \/ RunnerAfterCrawl(a)
  \/ AnalyzeNext(a, LivePerfOutcomes)
  \/ Complete(a)

NextLive ==
  \/ PostAudit(1)
  \/ TaskStep(1)
  \/ Throw(1)

SpecLive == Init /\ [][NextLive]_vars /\ WF_vars(TaskStep(1))

(***************************************************************************)
(* The pipeline on a deeper site: the seed links two pages, one of which   *)
(* links a fourth, so that a crawl yields the depths 0, 1, 1, 2.  The      *)
(* audit has been posted with maxPages = MaxDeepPages.                     *)
(***************************************************************************)
MaxDeepPages == 4

DeepBodies == {"good", "thin"}

DeepAnchors ==
  [b \in DeepBodies |->
     IF b = "good" THEN {<<Href("path", "", "/p"), Href("path", "", "/q")>>}
     ELSE {<<Href("path", "", "/r")>>}]

DeepPerfOutcomes == {o \in PerfOutcomes : o.kind = "nokey"}

InitDeep ==
  /\ db = <<newAudit(1, Url(SiteHost, ""))>>
  /\ analyzedPages = [a \in AllAudits |-> <<>>]
  /\ pc = [a \in AllAudits |-> IF a = 1 THEN "queued" ELSE "idle"]
  /\ maxPages = [a \in AllAudits |-> IF a = 1 THEN MaxDeepPages ELSE 0]
  /\ maxDepth = [a \in AllAudits |-> 0]
  /\ startUrl = [a \in AllAudits |-> Url("", "")]
  /\ visited = [a \in AllAudits |-> {}]
  /\ queue = [a \in AllAudits |-> <<>>]
  /\ results = [a \in AllAudits |-> <<>>]

NextDeep ==
  \/ StartAudit(1)
  \/ CrawlStep(1, DeepBodies, DeepAnchors)
  \/ CrawlReturn(1)
  \/ RunnerAfterCrawl(1)
  \/ AnalyzeNext(1, DeepPerfOutcomes)
  \/ Complete(1)
  \/ Throw(1)

SpecDeep == InitDeep /\ [][NextDeep]_vars

(***************************************************************************)
(* The page loop of startAudit on a given list of crawl results: a seed    *)
(* and one further page, each with any list of internal links.  crawlSite  *)
(* records a queued link in the internalLinks of the page that carried it, *)
(* so a list in which the further page has no inbound link is an input of  *)
(* the loop that the crawler of this repository does not hand over.        *)
(***************************************************************************)
GraphUrls == {Url(SiteHost, "/"), Url(SiteHost, "/p")}

GraphLinkLists == SeqsUpTo(GraphUrls, MaxAnchors)

GraphResult(u, h, d, l) ==
  [url |-> u, html |-> h, statusCode |-> 200, depth |-> d,
   internalLinks |-> l, externalLinks |-> <<>>, error |-> ""]

GraphResults ==
  {<<GraphResult(Url(SiteHost, "/"), "good", 0, l1),
     GraphResult(Url(SiteHost, "/p"), h, d, l2)>> :
     l1 \in GraphLinkLists, l2 \in GraphLinkLists,
     h \in DeepBodies, d \in 1..DefaultMaxDepth}

InitGraph ==
  /\ db = <<Merge(newAudit(1, Url(SiteHost, "/")), RunningUpdate)>>
  /\ analyzedPages = [a \in AllAudits |-> <<>>]
  /\ pc = [a \in AllAudits |-> IF a = 1 THEN "crawled" ELSE "idle"]
  /\ maxPages = [a \in AllAudits |-> IF a = 1 THEN 2 ELSE 0]
  /\ maxDepth = [a \in AllAudits |-> IF a = 1 THEN DefaultMaxDepth ELSE 0]
  /\ startUrl = [a \in AllAudits |-> IF a = 1 THEN Url(SiteHost, "/") ELSE Url("", "")]
  /\ visited = [a \in AllAudits |-> {}]
  /\ queue = [a \in AllAudits |-> <<>>]
  /\ results \in {[a \in AllAudits |-> IF a = 1 THEN r ELSE <<>>] : r \in GraphResults}

NextGraph ==
  \/ RunnerAfterCrawl(1)
  \/ AnalyzeNext(1, DeepPerfOutcomes)
  \/ Complete(1)
  \/ Throw(1)

SpecGraph == InitGraph /\ [][NextGraph]_vars

(***************************************************************************)
(* Two audits, both posted, run with their steps interleaved.  Each action *)
(* is the code between two awaits of one background task; the store's      *)
(* functions are synchronous, so each of their calls lies within one step. *)
(* The site has a seed and one further page; the second audit may have     *)
(* been posted with a malformed URL.                                       *)
(***************************************************************************)
PairAnchors == [b \in CrawlBodies |-> {<<Href("path", "", "/p")>>}]

InitPair ==
  /\ db \in {<<newAudit(1, Url(SiteHost, "")), newAudit(2, u)>> : u \in RequestUrls}
  /\ analyzedPages = [a \in AllAudits |-> <<>>]
  /\ pc = [a \in AllAudits |-> "queued"]
  /\ maxPages = [a \in AllAudits |-> 2]
  /\ maxDepth = [a \in AllAudits |-> 0]
  /\ startUrl = [a \in AllAudits |-> Url("", "")]
  /\ visited = [a \in AllAudits |-> {}]
  /\ queue = [a \in AllAudits |-> <<>>]
  /\ results = [a \in AllAudits |-> <<>>]

Task(a) ==
  \/ StartAudit(a)
  \/ CrawlStep(a, CrawlBodies, PairAnchors)
  \/ CrawlReturn(a)
  \/ RunnerAfterCrawl(a)
  \/ AnalyzeNext(a, DeepPerfOutcomes)
  \/ Complete(a)
  \/ Throw(a)

NextPair == \E a \in AllAudits : Task(a)

SpecPair == InitPair /\ [][NextPair]_vars

(***************************************************************************)
(* Properties.                                                             *)
(***************************************************************************)
Terminal == {"completed", "failed"}

StatusOf(a) == IF HasAudit(a) THEN get(a).status ELSE "none"

StatusSteps ==
  {<<"none", "queued">>, <<"queued", "running">>,
   <<"running", "completed">>, <<"running", "failed">>}

\* C1: the persisted status only moves Queued -> Running -> Completed | Failed,
\* an audit enters the store as Queued, and no update touches a record whose
\* status is Completed or Failed.
C1_StatusMachine ==
  [][\A a \in AllAudits :
       /\ StatusOf(a)' # StatusOf(a) => <<StatusOf(a), StatusOf(a)'>> \in StatusSteps
       /\ StatusOf(a) \in Terminal => get(a)' = get(a)]_vars

C1_Witness ==
  /\ StatusOf(1) = "completed"
  /\ Len(get(1).pages) >= 2

\* C2: no URL occurs twice in the results of a crawl.
C2_UniqueResultUrls ==
  \A a \in AllAudits :
    \A i, j \in 1..Len(results[a]) :
      i # j => results[a][i].url # results[a][j].url

InLinks(u, page) == \E k \in 1..Len(page.internalLinks) : page.internalLinks[k] = u

\* a page links back to the seed and to itself, and neither is fetched again
C2_Witness ==
  /\ pc[1] = "crawled"
  /\ Len(results[1]) = 2
  /\ maxPages[1] > 2
  /\ InLinks(results[1][1].url, results[1][2])
  /\ InLinks(results[1][2].url, results[1][2])

\* C3: at every point of the crawl the number of results is at most maxPages.
C3_ResultsWithinMaxPages ==
  \A a \in AllAudits :
    pc[a] \in {"crawl", "crawled"} => Len(results[a]) <= maxPages[a]

\* the crawl stopped at the cap with work left in the queue
C3_Witness ==
  /\ pc[1] = "crawled"
  /\ Len(results[1]) = maxPages[1]
  /\ Len(queue[1]) > 0

\* the results before position i that could have enqueued results[a][i]
Enqueuers(a, i) ==
  {j \in 1..(i - 1) : /\ results[a][j].depth < maxDepth[a]
                      /\ InLinks(results[a][i].url, results[a][j])}

MinOf(S) == CHOOSE x \in S : \A y \in S : x <= y

\* C4: the seed result has depth 0, every other result has the depth of the
\* result that enqueued it plus 1, and no result or queued item lies deeper
\* than maxDepth.
C4_Depths ==
  \A a \in AllAudits :
    /\ \A i \in 1..Len(results[a]) :
         /\ results[a][i].depth <= maxDepth[a]
         /\ i = 1 => results[a][i].depth = 0 /\ results[a][i].url = startUrl[a]
         /\ i > 1 => /\ Enqueuers(a, i) # {}
                     /\ results[a][i].depth
                          = results[a][MinOf(Enqueuers(a, i))].depth + 1
    /\ \A k \in 1..Len(queue[a]) : queue[a][k].depth <= maxDepth[a]

\* a page at the depth ceiling records a link that is not followed
C4_Witness ==
  /\ pc[1] = "crawled"
  /\ maxDepth[1] >= 1
  /\ \E i \in 1..Len(results[1]) :
       /\ results[1][i].depth = maxDepth[1]
       /\ \E k \in 1..Len(results[1][i].internalLinks) :
            /\ results[1][i].internalLinks[k] \notin visited[1]
            /\ ~QueueHas(queue[1], results[1][i].internalLinks[k])

CreatedRecord(a) == create(a, get(a).url)[Len(create(a, get(a).url))]

\* C5: an audit whose crawl returned no result ends Failed with completedAt
\* set and every other field as created; no page was analyzed.
C5_ZeroPagesFail ==
  \A a \in AllAudits :
    (HasAudit(a) /\ pc[a] = "done" /\ Len(results[a]) = 0) =>
      /\ get(a) = [CreatedRecord(a) EXCEPT !.status = "failed", !.completedAt = "stamp"]
      /\ analyzedPages[a] = <<>>

C5_Witness ==
  /\ HasAudit(1)
  /\ pc[1] = "done"
  /\ Len(results[1]) = 0
  /\ get(1).status = "failed"

\* C6: a record has completedAt set exactly when its status is Completed or Failed.
C6_CompletedAtIffTerminal ==
  \A i \in 1..Len(db) : (db[i].completedAt # "") <=> (db[i].status \in Terminal)

\* both terminal updates are covered: the zero-pages exit here, Completed in C1_Witness
C6_Witness ==
  /\ StatusOf(1) = "failed"
  /\ get(1).completedAt # ""
  /\ Len(results[1]) = 0

\* C7: a record that is not Completed holds no results, and a Completed one
\* was written after the crawl and the page loop were over.
C7_ResultsOnlyWhenCompleted ==
  \A a \in AllAudits :
    HasAudit(a) =>
      /\ get(a).status # "completed" =>
           /\ get(a).pages = <<>>
           /\ get(a).scores = ZeroScores
           /\ get(a).issuesSummary = ZeroSummary
           /\ get(a).reportMarkdown = <<>>
      /\ get(a).status = "completed" =>
           /\ pc[a] = "done"
           /\ ~LoopCond(a)
           /\ Len(results[a]) > 0
           /\ get(a).pages = analyzedPages[a]
           /\ Len(analyzedPages[a]) = Len(results[a])
           /\ get(a).reportMarkdown # <<>>

\* the audit failed after pages had been analyzed
C7_Witness ==
  /\ StatusOf(1) = "failed"
  /\ Len(analyzedPages[1]) >= 1

\* C8: every started audit eventually reaches Completed or Failed.
C8_EventuallyTerminal ==
  \A a \in AllAudits : (pc[a] = "queued") ~> (StatusOf(a) \in Terminal)

C8_Witness ==
  /\ StatusOf(1) = "completed"
  /\ Len(get(1).pages) = 3

InRange(scores) == \A k \in ScoreKeys : scores[k] \in 0..100

\* C9: every score of every page of an audit, from the moment the page loop
\* has scored it to its persisted record, and every score of the audit is an
\* integer in 0..100.
C9_ScoresInRange ==
  /\ \A a \in AllAudits : \A p \in 1..Len(analyzedPages[a]) :
       InRange(analyzedPages[a][p].scores)
  /\ \A i \in 1..Len(db) :
       /\ InRange(db[i].scores)
       /\ \A p \in 1..Len(db[i].pages) : InRange(db[i].pages[p].scores)

\* a persisted page whose performance penalties exceed its PageSpeed score
C9_Witness ==
  /\ StatusOf(1) = "completed"
  /\ \E p \in 1..Len(get(1).pages) :
       LET page == get(1).pages[p]
       IN /\ page.performanceData.present
          /\ page.performanceData.hasScore
          /\ 2 * page.performanceData.performanceScore
               < SumPenalty(page.issues, "performance")
          /\ page.scores.performance = 0

\* the issues of all pages, as positions <<page, index>>
IssueSlots(pages) ==
  UNION {{<<p, i>> : i \in 1..Len(pages[p].issues)} : p \in 1..Len(pages)}

SlotsWith(pages, field, value) ==
  Cardinality({s \in IssueSlots(pages) : pages[s[1]].issues[s[2]][field] = value})

\* C10: in a Completed audit the summary counts the issues of all pages by
\* severity and by category, and both tallies add up to the number of issues.
C10_SummaryMatchesIssues ==
  \A i \in 1..Len(db) :
    db[i].status = "completed" =>
      LET sm == db[i].issuesSummary
          pages == db[i].pages
      IN /\ \A sev \in Severities : sm[sev] = SlotsWith(pages, "severity", sev)
         /\ \A c \in Categories : sm.byCategory[c] = SlotsWith(pages, "category", c)
         /\ sm.critical + sm.major + sm.minor = Cardinality(IssueSlots(pages))
         /\ sm.byCategory["seo"] + sm.byCategory["performance"]
              + sm.byCategory["accessibility"] + sm.byCategory["content"]
              + sm.byCategory["uxDesign"] = Cardinality(IssueSlots(pages))

\* issues of several severities and categories spread over several pages
C10_Witness ==
  /\ StatusOf(1) = "completed"
  /\ Len(get(1).pages) >= 2
  /\ \A p \in 1..2 : Len(get(1).pages[p].issues) >= 1
  /\ \A sev \in Severities : get(1).issuesSummary[sev] >= 1
  /\ Cardinality({c \in Categories : get(1).issuesSummary.byCategory[c] >= 1}) >= 3

\* the weighted mean of score k over pages in exact arithmetic, rounded half
\* up and clamped; 1 / (1 + depth) is counted in sixths
ExactWeightedMean(pages, k) ==
  LET total == SumSeq([i \in 1..Len(pages) |->
                         pages[i].scores[k] * (6 \div (1 + pages[i].depth))])
      weight == SumSeq([i \in 1..Len(pages) |-> 6 \div (1 + pages[i].depth)])
  IN Max(0, Min(100, (2 * total + weight) \div (2 * weight)))

\* C11: each of the six scores of a Completed audit is the clamped, rounded
\* depth-weighted mean of that score over the pages, weight 1 / (1 + depth).
C11_WeightedMean ==
  \A i \in 1..Len(db) :
    db[i].status = "completed" =>
      \A k \in ScoreKeys : db[i].scores[k] = ExactWeightedMean(db[i].pages, k)


\* C13: a crawl with maxPages = 1 on a valid seed returns exactly one result,
\* the seed at depth 0, whatever links the page carries and whether or not
\* its fetch succeeded.
C13_SinglePage ==
  \A a \in AllAudits :
    (pc[a] = "crawled" /\ maxPages[a] = 1 /\ ParseOk(startUrl[a])) =>
      /\ Len(results[a]) = 1
      /\ results[a][1].url = startUrl[a]
      /\ results[a][1].depth = 0

\* the seed was fetched with an internal and an external link, one page is
\* still queued, and the crawl has returned
C13_Witness ==
  /\ pc[1] = "crawled" /\ maxPages[1] = 1 /\ ParseOk(startUrl[1])
  /\ Len(results[1]) = 1
  /\ Len(results[1][1].internalLinks) > 0
  /\ Len(results[1][1].externalLinks) > 0
  /\ Len(queue[1]) > 0


\* anchors in the crawl results of audit a that resolve to u
InboundSlots(a, u) ==
  {jk \in (1..Len(results[a])) \X (1..MaxAnchors + 1) :
     /\ jk[2] <= Len(results[a][jk[1]].internalLinks)
     /\ results[a][jk[1]].internalLinks[jk[2]] = u}

OrphanSlots(page) ==
  {x \in 1..Len(page.issues) : page.issues[x].code = "ORPHAN_PAGE"}

\* C14: a page put through link-graph postprocessing that has no inbound
\* internal link and a depth above 0 carries exactly one ORPHAN_PAGE issue
\* (content, major), the last of its issues, and was scored with it; a page
\* of depth 0 carries none.
C14_Orphan ==
  \A a \in AllAudits : \A i \in 1..Len(analyzedPages[a]) :
    LET page == analyzedPages[a][i]
        raw == results[a][i]
    IN raw.error = "" =>
         /\ (InboundSlots(a, raw.url) = {} /\ raw.depth > 0) =>
              /\ OrphanSlots(page) = {Len(page.issues)}
              /\ page.issues[Len(page.issues)].category = "content"
              /\ page.issues[Len(page.issues)].severity = "major"
              /\ page.scores.content <= 95 - 15 - 10
         /\ raw.depth = 0 => OrphanSlots(page) = {}

\* both pages analysed: the seed has no inbound link and no ORPHAN_PAGE, the
\* page of depth 2 has no inbound link and ORPHAN_PAGE after its other issues
C14_Witness ==
  /\ Len(analyzedPages[1]) = 2
  /\ InboundSlots(1, results[1][1].url) = {}
  /\ OrphanSlots(analyzedPages[1][1]) = {}
  /\ InboundSlots(1, results[1][2].url) = {}
  /\ results[1][2].depth = 2
  /\ Len(analyzedPages[1][2].issues) > 1
  /\ OrphanSlots(analyzedPages[1][2]) = {Len(analyzedPages[1][2].issues)}


PerformanceIssues(page) ==
  {x \in 1..Len(page.issues) : page.issues[x].category = "performance"}

\* the seed's page record carries no performance data and exactly one
\* performance issue, PERFORMANCE_DATA_UNAVAILABLE of severity minor
UnavailableOnly(page) ==
  /\ ~page.performanceData.present
  /\ Cardinality(PerformanceIssues(page)) = 1
  /\ \A x \in PerformanceIssues(page) :
       /\ page.issues[x].code = "PERFORMANCE_DATA_UNAVAILABLE"
       /\ page.issues[x].severity = "minor"

SeqAll(q, P(_)) == \A i \in 1..Len(q) : P(q[i])

\* C16: the hostname of the seed scopes the whole crawl: a link to another
\* hostname is recorded among the externalLinks of its page only, is never
\* queued and never fetched, so every result has the seed's hostname.
C16_DomainScope ==
  \A a \in AllAudits : ParseOk(startUrl[a]) =>
    LET domain == Hostname(startUrl[a])
        Inside(u) == Hostname(u) = domain
        Outside(u) == Hostname(u) # domain
        ItemInside(item) == Inside(item.url)
        ResultScoped(r) == /\ Inside(r.url)
                           /\ SeqAll(r.internalLinks, Inside)
                           /\ SeqAll(r.externalLinks, Outside)
    IN /\ SeqAll(queue[a], ItemInside)
       /\ SeqAll(results[a], ResultScoped)
       /\ \A u \in visited[a] : Inside(u)

\* the seed carried a link to another host and an internal one; the crawl
\* went on to a second page and returned
C16_Witness ==
  /\ pc[1] = "crawled"
  /\ Len(results[1]) = 2
  /\ Len(results[1][1].externalLinks) = 1
  /\ Hostname(results[1][1].externalLinks[1]) = OtherHost
  /\ Hostname(results[1][2].url) = Hostname(startUrl[1])

\* C17: every crawl result whose markup is empty because the page could not
\* be retrieved as HTML (the request threw, or the response was not HTML)
\* carries a non-empty error.
C17_FailureHasError ==
  \A a \in AllAudits : \A i \in 1..Len(results[a]) :
    results[a][i].html = "" => results[a][i].error # ""

\* the page record synthesized for a result with a fetch error: six scores
\* of 0, the one issue PAGE_UNREACHABLE (content, critical) without an
\* assigned id, no analyzer data
ZeroScoreRecord(page) ==
  /\ \A k \in ScoreKeys : page.scores[k] = 0
  /\ Len(page.issues) = 1
  /\ page.issues[1].code = "PAGE_UNREACHABLE"
  /\ page.issues[1].category = "content"
  /\ page.issues[1].severity = "critical"
  /\ page.issues[1].id = <<>>
  /\ ~page.seoData.present /\ ~page.accessibilityData.present
  /\ ~page.contentData.present /\ ~page.designUxData.present
  /\ ~page.performanceData.present

\* the page record of a result put through the analyzers, the assignment of
\* issue ids and the page scorer
AnalyzedRecord(page) ==
  /\ page.seoData.present /\ page.accessibilityData.present
  /\ page.contentData.present /\ page.designUxData.present
  /\ \A x \in 1..Len(page.issues) :
       page.issues[x].id = <<page.id, x - 1>> /\ page.issues[x].pageUrl = page.url
  /\ page.scores.overall =
       clampScore(page.scores.seo + page.scores.accessibility + page.scores.content
                    + page.scores.uxDesign + page.scores.performance, 5)
  /\ page.scores.overall > 0

\* C18: the page record of a crawl result with a fetch error is the
\* zero-score record with the single PAGE_UNREACHABLE issue; the page record
\* of every other result comes from all analyzers, the issue ids and the
\* page scorer.
C18_ErrorOrAnalyzed ==
  \A a \in AllAudits : \A i \in 1..Len(analyzedPages[a]) :
    IF results[a][i].error # ""
    THEN ZeroScoreRecord(analyzedPages[a][i])
    ELSE AnalyzedRecord(analyzedPages[a][i])


MalformedSeed == Url("", "not a url")

\* C19: for an audit of a malformed seed URL, crawlSite fetches nothing and
\* returns the empty list without throwing, and the runner fails the audit
\* as it does any crawl of zero pages: status failed, completedAt stamped,
\* no pages, scores or report.
C19_MalformedSeed ==
  \A a \in AllAudits : (HasAudit(a) /\ get(a).url = MalformedSeed) =>
    /\ visited[a] = {} /\ results[a] = <<>>
    /\ pc[a] \in {"queued", "crawl", "crawled", "done"}
    /\ pc[a] = "done" =>
         get(a) = Merge(newAudit(a, MalformedSeed), ZeroPagesUpdate)

\* the audit of the malformed seed has ended
C19_Witness ==
  /\ HasAudit(1) /\ get(1).url = MalformedSeed
  /\ pc[1] = "done"
  /\ get(1).status = "failed"


NoDuplicates(q) == \A i, j \in 1..Len(q) : q[i] = q[j] => i = j

\* C20: the internalLinks and the externalLinks of every crawl result hold no
\* URL twice, also when several anchors of the page resolve to one URL.
C20_LinkSets ==
  \A a \in AllAudits : \A i \in 1..Len(results[a]) :
    /\ NoDuplicates(results[a][i].internalLinks)
    /\ NoDuplicates(results[a][i].externalLinks)


\* positions of the page's issues of category c and severity v
IssuesOf(page, c, v) ==
  {x \in 1..Len(page.issues) :
     page.issues[x].category = c /\ page.issues[x].severity = v}

\* 25 for each critical, 15 for each major, 7 for each minor issue of category c
FullPenalty(page, c) ==
  25 * Cardinality(IssuesOf(page, c, "critical"))
  + 15 * Cardinality(IssuesOf(page, c, "major"))
  + 7 * Cardinality(IssuesOf(page, c, "minor"))

\* the fixed extra penalties of calculatePageScores
ExtraPenalty(page, c) ==
  CASE c = "seo" ->
         IF page.seoData.present /\ page.seoData.wordCount \in 1..119 THEN 5 ELSE 0
    [] c = "accessibility" ->
         IF page.accessibilityData.present /\ page.accessibilityData.unlabeledInputs > 0
         THEN 5 ELSE 0
    [] c = "content" ->
         IF ~page.contentData.present THEN 0
         ELSE (IF page.contentData.internalLinkCount = 0 THEN 10 ELSE 0)
              + (IF page.contentData.brokenLinks # <<>> THEN 5 ELSE 0)
              + (IF page.contentData.inboundLinks = 0 /\ page.depth > 0 THEN 10 ELSE 0)
    [] c = "uxDesign" ->
         IF page.designUxData.present /\ ~page.designUxData.hasNavigation THEN 10 ELSE 0
    [] OTHER -> 0

BaseOf(c) == IF c = "content" THEN 95 ELSE IF c = "performance" THEN 80 ELSE 100

Clamp100(n) == IF n < 0 THEN 0 ELSE IF n > 100 THEN 100 ELSE n

HasExternalScore(page) == page.performanceData.present /\ page.performanceData.hasScore

\* base less the full penalties and the extra penalty, clamped
FullPenaltyScore(page, c) ==
  Clamp100((IF c = "performance" /\ HasExternalScore(page)
            THEN page.performanceData.performanceScore ELSE BaseOf(c))
           - FullPenalty(page, c) - ExtraPenalty(page, c))

\* pages of audit a that were analyzed, i.e. whose result has no fetch error
AnalyzedOf(a) == {i \in 1..Len(analyzedPages[a]) : results[a][i].error = ""}

\* C21 as stated: every category score of an analyzed page is the clamped
\* base less the penalties 25/15/7 of the category's issues and the extra
\* penalty, for the performance category with or without an external score.
C21_FullPenalties ==
  \A a \in AllAudits : \A i \in AnalyzedOf(a) : \A c \in Categories :
    analyzedPages[a][i].scores[c] = FullPenaltyScore(analyzedPages[a][i], c)

\* C21: every category score of an analyzed page is the clamped base less the
\* penalties 25/15/7 of the category's issues and the extra penalty, except
\* that a performance score taken from the external service is reduced by
\* half of each penalty (12.5/7.5/3.5) and then rounded.
C21_CategoryScores ==
  \A a \in AllAudits : \A i \in AnalyzedOf(a) : \A c \in Categories :
    LET page == analyzedPages[a][i]
    IN page.scores[c] =
         IF c = "performance" /\ HasExternalScore(page)
         THEN Clamp100((2 * page.performanceData.performanceScore
                          - FullPenalty(page, c) + 1) \div 2)
         ELSE FullPenaltyScore(page, c)

\* a seed scored from an external performance score of 60 with one critical
\* performance issue: 60 - 12.5 rounds to 48
C21_Witness ==
  /\ Len(analyzedPages[1]) > 0
  /\ HasExternalScore(analyzedPages[1][1])
  /\ analyzedPages[1][1].performanceData.performanceScore = 60
  /\ FullPenalty(analyzedPages[1][1], "performance") = 25
  /\ analyzedPages[1][1].scores.performance = 48


CategorySum(scores) ==
  scores.seo + scores.performance + scores.accessibility + scores.content
  + scores.uxDesign

\* C22: the overall score of every persisted page is the mean of the page's
\* five category scores, rounded to the nearest integer and clamped to 0..100.
C22_PageOverall ==
  \A i \in 1..Len(db) : \A p \in 1..Len(db[i].pages) :
    db[i].pages[p].scores.overall =
      Clamp100((2 * CategorySum(db[i].pages[p].scores) + 5) \div 10)

\* a persisted page whose mean has a fraction of at least 3/5 and is rounded up
C22_Witness ==
  /\ StatusOf(1) = "completed"
  /\ \E p \in 1..Len(get(1).pages) :
       /\ CategorySum(get(1).pages[p].scores) % 5 >= 3
       /\ 5 * get(1).pages[p].scores.overall > CategorySum(get(1).pages[p].scores)


\* C23 as stated: the overall score of a Completed audit is the rounded mean
\* of the audit's own five category scores.
C23_MeanOfCategories ==
  \A i \in 1..Len(db) : db[i].status = "completed" =>
    db[i].scores.overall = (2 * CategorySum(db[i].scores) + 5) \div 10

\* weights in sixths: 6, 3, 2 for the depths 0, 1, 2
SixthsTotal(pages, k) ==
  SumSeq([p \in 1..Len(pages) |-> pages[p].scores[k] * (6 \div (1 + pages[p].depth))])

SixthsWeight(pages) ==
  SumSeq([p \in 1..Len(pages) |-> 6 \div (1 + pages[p].depth)])

\* C23: the overall score of a Completed audit is computed from the pages'
\* overall scores alone: it is their depth-weighted mean rounded to the
\* nearest integer, and when that mean lies exactly half-way between two
\* integers it is one of the two.
C23_AuditOverall ==
  \A i \in 1..Len(db) : db[i].status = "completed" =>
    LET total == SixthsTotal(db[i].pages, "overall")
        weight == SixthsWeight(db[i].pages)
        up == (2 * total + weight) \div (2 * weight)
    IN IF (2 * total + weight) % (2 * weight) = 0
       THEN db[i].scores.overall \in {up - 1, up}
       ELSE db[i].scores.overall = up

\* a Completed audit of pages at different depths whose overall score is not
\* the mean of its category scores
C23_Witness ==
  /\ StatusOf(1) = "completed"
  /\ Len(get(1).pages) >= 3
  /\ \E p \in 1..Len(get(1).pages) : get(1).pages[p].depth = 2
  /\ get(1).scores.overall # (2 * CategorySum(get(1).scores) + 5) \div 10


\* length of the shortest chain of internal links from the seed to the i-th
\* result through results that precede it; -1 if there is none
RECURSIVE ChainLength(_, _)
ChainLength(rs, i) ==
  IF i = 1 THEN 0
  ELSE LET before == {ChainLength(rs, j) :
                        j \in {j \in 1..(i - 1) : InLinks(rs[i].url, rs[j])}}
       IN IF before = {} \/ (0 - 1) \in before THEN 0 - 1 ELSE 1 + MinOf(before)

C25_PagesFollowResults ==
  \A a \in AllAudits : (HasAudit(a) /\ get(a).status = "completed") =>
    /\ Len(get(a).pages) = Len(results[a])
    /\ \A i \in 1..Len(results[a]) :
         /\ get(a).pages[i].url = results[a][i].url
         /\ get(a).pages[i].statusCode = results[a][i].statusCode
         /\ get(a).pages[i].depth = results[a][i].depth

\* a Completed audit of three results, one of them after the seed with a
\* fetch error
C25_Witness ==
  /\ StatusOf(1) = "completed"
  /\ Len(results[1]) = 3
  /\ \E i \in 2..3 : results[1][i].error # "" /\ get(1).pages[i].statusCode = 0


\* C26: a crawl that has started returns, and when it has returned from the
\* loop the queue is empty or the number of results equals maxPages.
C26_CrawlStops ==
  /\ [](\A a \in AllAudits :
          (pc[a] = "crawled" /\ ParseOk(startUrl[a])) =>
            (Len(queue[a]) = 0 \/ Len(results[a]) = maxPages[a]))
  /\ \A a \in AllAudits : (pc[a] = "crawl") ~> (pc[a] = "crawled")

\* a crawl that returned because the queue ran empty, short of maxPages,
\* after more than one page
C26_Witness ==
  /\ pc[1] = "crawled"
  /\ Len(queue[1]) = 0
  /\ Len(results[1]) >= 2
  /\ Len(results[1]) < maxPages[1]


\* the variables local to the background task of audit b
TaskLocal(b) == <<pc[b], queue[b], visited[b], results[b], analyzedPages[b]>>

HasRecord(d, id) == \E i \in 1..Len(d) : d[i].id = id
RecordOf(d, id) == d[CHOOSE i \in 1..Len(d) : d[i].id = id]

\* a step that is not a step of audit b leaves the record of b as it is
OthersUntouched ==
  \A b \in AllAudits :
    (HasRecord(db, b) /\ TaskLocal(b)' = TaskLocal(b)) =>
      (HasRecord(db', b) /\ RecordOf(db', b) = RecordOf(db, b))

\* the record of an audit that has ended is the one its own run determines
OwnOutcome(a) ==
  \/ get(a) = Merge(newAudit(a, get(a).url), ZeroPagesUpdate)
  \/ /\ get(a).status = "completed"
     /\ get(a).pages = analyzedPages[a]
     /\ Len(get(a).pages) = Len(results[a])
     /\ results[a][1].url = get(a).url
     /\ get(a).reportMarkdown = <<get(a).url, get(a).scores, get(a).issuesSummary>>

\* C27: with the runs of two audits interleaved, every step of one audit
\* leaves the record of the other unchanged, and the final record of each
\* audit is the outcome of its own run.
C27_Isolation ==
  /\ [][OthersUntouched]_vars
  /\ [](\A a \in AllAudits : (HasAudit(a) /\ pc[a] = "done") => OwnOutcome(a))

\* both audits have ended, the first Failed on an exception after the
\* second had Completed with two pages
C27_Witness ==
  /\ pc[1] = "done" /\ pc[2] = "done"
  /\ Len(get(2).pages) = 2 /\ Len(analyzedPages[1]) = 1
  /\ get(1).status = "failed" /\ get(2).status = "completed"


\* C28: every crawl result of depth above 0 is among the internalLinks of an
\* earlier result, and no page of an audit carries an ORPHAN_PAGE issue or
\* the content penalty for zero inbound links.
C28_NoOrphans ==
  \A a \in AllAudits :
    /\ \A i \in 1..Len(results[a]) :
         results[a][i].depth > 0 =>
           \E j \in 1..(i - 1) : InLinks(results[a][i].url, results[a][j])
    /\ \A i \in 1..Len(analyzedPages[a]) :
         LET page == analyzedPages[a][i]
         IN /\ OrphanSlots(page) = {}
            /\ (page.contentData.present /\ page.depth > 0) =>
                 /\ page.contentData.inboundLinks >= 1
                 /\ page.scores.content =
                      Clamp100(95 - FullPenalty(page, "content")
                               - (IF page.contentData.internalLinkCount = 0 THEN 10 ELSE 0)
                               - (IF page.contentData.brokenLinks # <<>> THEN 5 ELSE 0))

\* a page of depth 1 without outgoing internal links has been analyzed: its
\* inbound count is at least 1 and its content score is 95 - 10
C28_Witness ==
  /\ Len(analyzedPages[1]) >= 2
  /\ analyzedPages[1][2].depth = 1
  /\ analyzedPages[1][2].contentData.present
  /\ analyzedPages[1][2].contentData.inboundLinks >= 1
  /\ analyzedPages[1][2].contentData.internalLinkCount = 0
  /\ analyzedPages[1][2].scores.content = 85


AllFetchesFailed(a) ==
  Len(results[a]) > 0 /\ \A i \in 1..Len(results[a]) : results[a][i].error # ""

\* an audit becomes Failed only at the exit for a crawl of zero results or
\* when an exception escapes the page loop
FailsOnlyOnEmptyOrThrow ==
  \A a \in AllAudits :
    (HasRecord(db, a) /\ RecordOf(db, a).status # "failed"
       /\ RecordOf(db', a).status = "failed") =>
      \/ pc[a] = "crawled" /\ Len(results[a]) = 0
      \/ pc[a] = "analyze" /\ analyzedPages'[a] = analyzedPages[a]

\* C29: failed network calls alone never fail an audit: the audit becomes
\* Failed only when the crawl returned no result or an exception escaped, and
\* an audit Completed on results that all carry a fetch error has pages of
\* all-zero scores and all-zero audit scores.
C29_FailuresAreLocal ==
  /\ [][FailsOnlyOnEmptyOrThrow]_vars
  /\ [](\A a \in AllAudits :
          (HasAudit(a) /\ get(a).status = "completed" /\ AllFetchesFailed(a)) =>
            /\ \A k \in ScoreKeys : get(a).scores[k] = 0
            /\ \A p \in 1..Len(get(a).pages) :
                 \A k \in ScoreKeys : get(a).pages[p].scores[k] = 0)

\* an audit Completed although the fetch of its seed, the only result, failed
C29_Witness ==
  /\ StatusOf(1) = "completed"
  /\ AllFetchesFailed(1)
  /\ Len(get(1).pages) = 1
  /\ get(1).issuesSummary.critical = 1


\* the crawl results without markup and without an error field
EmptyOf(a) ==
  {i \in 1..Len(analyzedPages[a]) : results[a][i].html = "" /\ results[a][i].error = ""}

\* C30: a crawl result with empty markup and no error field becomes a page
\* with the single issue PAGE_UNREACHABLE (content, critical), no analyzer
\* data, and the scores seo 100, accessibility 100, uxDesign 100, content 70,
\* performance 80, overall 90.
C30_EmptyMarkupScored ==
  \A a \in AllAudits : \A i \in EmptyOf(a) :
    LET page == analyzedPages[a][i]
    IN /\ Len(page.issues) = 1
       /\ page.issues[1].code = "PAGE_UNREACHABLE"
       /\ page.issues[1].category = "content"
       /\ page.issues[1].severity = "critical"
       /\ ~page.seoData.present /\ ~page.accessibilityData.present
       /\ ~page.contentData.present /\ ~page.designUxData.present
       /\ ~page.performanceData.present
       /\ page.scores = [seo |-> 100, accessibility |-> 100, uxDesign |-> 100,
                         content |-> 70, performance |-> 80, overall |-> 90]

\* a Completed audit holding such a page below the seed
C30_Witness ==
  /\ StatusOf(1) = "completed"
  /\ \E i \in EmptyOf(1) :
       /\ results[1][i].depth > 0
       /\ get(1).pages[i].scores.overall = 90
       /\ get(1).pages[i].scores.content = 70

=============================================================================
